---- MODULE Spec2Model ----
(***************************************************************************)
(* Budding (src/budding.py): an ENA fastq validator.                       *)
(*                                                                         *)
(* The program is one sequential process.  main runs validate for every    *)
(* (accession, directory) pair; validate lists the directory, builds the   *)
(* checksum catalog (get_md5_from_ena, which first resolves the runs of    *)
(* the project with fetch_runs_from_bioproject) and compares every file.   *)
(*                                                                         *)
(* Strings are sequences of tokens.  A token is either one of the          *)
(* separator characters the code splits on ("_", ".", tab, ";", newline)   *)
(* or an atom: a run of characters holding no separator.                   *)
(***************************************************************************)
EXTENDS Integers, Sequences, FiniteSets, TLC

VARIABLES
    pc,             \* position of the process in the program
    err,            \* the exception that ended the current call, or NoErr
    \* _retry_request
    rr_i,           \* loop variable i of the retry loop
    rr_calls,       \* invocations of func so far
    rr_sleeps,      \* calls of time.sleep so far
    rr_slept,       \* seconds slept so far
    rr_outcomes,    \* outcome of every attempt so far, in order
    \* efetch_accession_from_ids / fetch_runs_from_bioproject
    res,            \* the response _retry_request returned, or NoRes
    fastq_lis,      \* the runs fetch_runs_from_bioproject returned
    \* get_md5_from_ena
    cache,          \* the cache argument
    cache_exists,   \* whether the file md5_cache_dir exists
    cache_file,     \* content of the file md5_cache_dir
    md5_dic,        \* the in-memory catalog
    full_fastq_set, \* the requested run identifiers
    need_query_lis, \* the runs still to query, in iteration order
    res_lis,        \* the raw lines fetched in this call
    queries,        \* the file-report queries issued in this call
    entry_file,     \* content of the cache file when the call began
    ncalls,         \* get_md5_from_ena calls begun so far
    prev_call,      \* what the last completed call requested and fetched
    cache_reads,    \* times this call read the cache file
    \* validate / main
    pairs,          \* zip(args.accession, args.dir)
    pair_idx,       \* 1-based index of the current pair
    fastq_files,    \* os.listdir(dir) of the current pair, with each content hash
    file_idx,       \* 1-based index of the next file to check
    fail_cnt,       \* mismatches counted for the current pair
    started,        \* the pairs validate was started for
    actual_md5s,    \* the hash computed for every file of the current pair
    summaries,      \* final fail_cnt of every pair validate completed
    exit_code       \* exit status of the process, or NoExit

vars == << pc, err, rr_i, rr_calls, rr_sleeps, rr_slept, rr_outcomes, res,
           fastq_lis, cache, cache_exists, cache_file, md5_dic, full_fastq_set,
           need_query_lis, res_lis, queries, entry_file, ncalls, prev_call,
           cache_reads, pairs, pair_idx, fastq_files, file_idx, fail_cnt,
           started, actual_md5s, summaries, exit_code >>

retryVars == << rr_i, rr_calls, rr_sleeps, rr_slept, rr_outcomes >>
catalogVars == << cache, cache_exists, cache_file, md5_dic, full_fastq_set,
                  need_query_lis, res_lis, queries, entry_file, ncalls,
                  prev_call, cache_reads >>
mainVars == << pairs, pair_idx, fastq_files, file_idx, fail_cnt, started,
               actual_md5s, summaries, exit_code >>

-----------------------------------------------------------------------------
(* Bounds of the model *)

MaxPkgs == 2        \* EXPERIMENT_PACKAGE elements in a fetched document
MaxCalls == 2       \* get_md5_from_ena calls against one cache file
MaxPairs == 2       \* (accession, directory) pairs of one invocation
MaxFiles == 2       \* files in one directory
MaxLines == 2       \* lines of the cache file a call finds

-----------------------------------------------------------------------------
(* Strings *)

US == "_"
DOT == "."
TAB == "<TAB>"
SEMI == ";"
NL == "<NL>"

NoErr == [ kind |-> "none", description |-> "", attempts |-> 0 ]
NoRes == [ kind |-> "none", pkgs |-> << >> ]
NoExit == "running"
NoAttr == << "no-accession-attribute" >>

\* str.split(sep): the segments between the occurrences of sep, the empty ones
\* included; always at least one segment.
RECURSIVE Split(_, _)
Split(s, sep) ==
    IF \A i \in 1..Len(s) : s[i] # sep
    THEN << s >>
    ELSE LET i == CHOOSE k \in 1..Len(s) :
                      s[k] = sep /\ \A j \in 1..(k - 1) : s[j] # sep
         IN  << SubSeq(s, 1, i - 1) >> \o Split(SubSeq(s, i + 1, Len(s)), sep)

\* The run identifiers the archive may report: plain accessions, and one that
\* carries a file-suffix segment.
SRR1 == << "SRR1" >>
SRR2 == << "SRR2" >>
SRR1_1 == << "SRR1", US, "1" >>
RunIds == { SRR1, SRR2, SRR1_1 }

Range(s) == { s[i] : i \in 1..Len(s) }

SeqsUpTo(S, n) == UNION { [1..k -> S] : k \in 0..n }

-----------------------------------------------------------------------------
(* _retry_request, src/budding.py:20-45 *)

num_retries == 3
sleep_time == 60

\* Documents the fetch endpoint may answer with: unparsable text, a document
\* with an ERROR node, or EXPERIMENT_PACKAGE records each holding no, one or
\* two RUN elements (a RUN may lack its accession attribute).
Packages == { << >> } \cup { << a >> : a \in RunIds \cup { NoAttr } }
              \cup { << a, b >> : a, b \in RunIds }
Docs == [ kind : {"xml"}, pkgs : SeqsUpTo(Packages, MaxPkgs) ]
          \cup { [ kind |-> "garbage", pkgs |-> << >> ],
                 [ kind |-> "error", pkgs |-> << >> ] }

Raise(e) ==
    /\ pc' = "raised"
    /\ err' = e

\* RetryOk with the sleep taken on every attempt, the successful one too.
RetryOkSleeps(doc) ==
    /\ pc = "efetch"
    /\ rr_i < num_retries
    /\ rr_calls' = rr_calls + 1
    /\ rr_outcomes' = Append(rr_outcomes, [ kind |-> "ok", body |-> doc ])
    /\ rr_sleeps' = rr_sleeps + 1
    /\ rr_slept' = rr_slept + sleep_time
    /\ res' = doc
    /\ pc' = "parse"
    /\ UNCHANGED << err, rr_i, fastq_lis >>
    /\ UNCHANGED << catalogVars, mainVars >>

\* One iteration of the loop whose func() returns a response that is OK:
\* the response is returned at once (line 39).
RetryOk(doc) ==
    /\ pc = "efetch"
    /\ rr_i < num_retries
    /\ rr_calls' = rr_calls + 1
    /\ rr_outcomes' = Append(rr_outcomes, [ kind |-> "ok", body |-> doc ])
    /\ res' = doc
    /\ pc' = "parse"
    /\ UNCHANGED << err, rr_i, rr_sleeps, rr_slept, fastq_lis >>
    /\ UNCHANGED << catalogVars, mainVars >>

\* RetryFailedAttempt that sleeps only after a response that is not OK.
RetryFailedAttemptSleepsOnNotOk(kind) ==
    /\ pc = "efetch"
    /\ rr_i < num_retries
    /\ rr_calls' = rr_calls + 1
    /\ rr_outcomes' = Append(rr_outcomes, [ kind |-> kind, body |-> NoRes ])
    /\ rr_sleeps' = IF kind = "notok" THEN rr_sleeps + 1 ELSE rr_sleeps
    /\ rr_slept' = IF kind = "notok" THEN rr_slept + sleep_time ELSE rr_slept
    /\ rr_i' = rr_i + 1
    /\ UNCHANGED << pc, err, res, fastq_lis >>
    /\ UNCHANGED << catalogVars, mainVars >>

\* One failed iteration, lines 33-37 (kind "notok") or lines 40-44 (kind
\* "raise"): log, sleep, go on with the next i.
RetryFailedAttempt(kind) ==
    /\ pc = "efetch"
    /\ rr_i < num_retries
    /\ rr_calls' = rr_calls + 1
    /\ rr_outcomes' = Append(rr_outcomes, [ kind |-> kind, body |-> NoRes ])
    /\ rr_sleeps' = rr_sleeps + 1
    /\ rr_slept' = rr_slept + sleep_time
    /\ rr_i' = rr_i + 1
    /\ UNCHANGED << pc, err, res, fastq_lis >>
    /\ UNCHANGED << catalogVars, mainVars >>

RetryNotOk == RetryFailedAttempt("notok")

RetryRaise == RetryFailedAttempt("raise")

\* RetryExhausted with the loop one iteration short.
RetryExhaustedEarly ==
    /\ pc = "efetch"
    /\ rr_i >= num_retries - 1
    /\ Raise([ kind |-> "Failed", description |-> "efetch_from_ids",
               attempts |-> num_retries ])
    /\ UNCHANGED << retryVars, res, fastq_lis >>
    /\ UNCHANGED << catalogVars, mainVars >>

\* Line 45: the loop ran out.
RetryExhausted ==
    /\ pc = "efetch"
    /\ rr_i = num_retries
    /\ Raise([ kind |-> "Failed", description |-> "efetch_from_ids",
               attempts |-> num_retries ])
    /\ UNCHANGED << retryVars, res, fastq_lis >>
    /\ UNCHANGED << catalogVars, mainVars >>

-----------------------------------------------------------------------------
(* efetch_accession_from_ids, src/budding.py:47-90 *)

\* Lines 82-88.  data_frames holds references: every RUN of a package appends
\* the one dictionary d of that package (line 83), after storing the RUN's
\* accession in it (line 87).  The state is the list of references and, per
\* package, the current content of its dictionary.
RECURSIVE RunLoop(_, _, _, _)
RunLoop(runs, p, accessions_set, st) ==
    IF runs = << >> THEN st
    ELSE LET accession_here == Head(runs)
             keep == accessions_set = {} \/ accession_here \in accessions_set
             st2 == IF keep
                    THEN [ refs |-> Append(st.refs, p),
                           d |-> [ st.d EXCEPT ![p] = accession_here ] ]
                    ELSE st
         IN  RunLoop(Tail(runs), p, accessions_set, st2)

RECURSIVE PkgLoop(_, _, _, _)
PkgLoop(pkgs, p, accessions_set, st) ==
    IF p > Len(pkgs) THEN st
    ELSE PkgLoop(pkgs, p + 1, accessions_set,
                 RunLoop(pkgs[p], p, accessions_set, st))

\* The 'run' column of pd.DataFrame(data_frames), line 90: every reference is
\* read when the frame is built, after the loops.  accessions_set = {} stands
\* for accessions = None, the only way the program calls it (line 128).
RunColumn(pkgs, accessions_set) ==
    LET st == PkgLoop(pkgs, 1, accessions_set,
                      [ refs |-> << >>, d |-> [ p \in 1..Len(pkgs) |-> NoAttr ] ])
    IN  [ k \in 1..Len(st.refs) |-> st.d[st.refs[k]] ]

\* Every accession of every RUN element of the document.
AllRunAccessions(pkgs) == UNION { Range(pkgs[p]) : p \in 1..Len(pkgs) }

-----------------------------------------------------------------------------
(* fetch_runs_from_bioproject, src/budding.py:92-129 *)

SearchOutcomes == { "raise", "notok", "badxml", "noidlist", "nowebenv", "good" }

\* Lines 93-125: the search request, issued once and directly.  The number of
\* ids only decides a printed warning (line 117).
Esearch(outcome) ==
    /\ pc = "esearch"
    /\ IF outcome = "good"
       THEN /\ pc' = "efetch"
            /\ UNCHANGED err
       ELSE Raise([ kind |-> "esearch", description |-> outcome, attempts |-> 1 ])
    /\ UNCHANGED << retryVars, res, fastq_lis >>
    /\ UNCHANGED << catalogVars, mainVars >>

\* Lines 63-90 and 129: parse the returned document and read the 'run' column.
ParseRuns ==
    /\ pc = "parse"
    /\ IF res.kind = "garbage"
       THEN Raise([ kind |-> "ParseError", description |-> "efetch", attempts |-> 0 ])
            /\ UNCHANGED fastq_lis
       ELSE IF res.kind = "error"
       THEN Raise([ kind |-> "RemoteError", description |-> "efetch", attempts |-> 0 ])
            /\ UNCHANGED fastq_lis
       ELSE IF NoAttr \in AllRunAccessions(res.pkgs)
       THEN Raise([ kind |-> "KeyError", description |-> "accession", attempts |-> 0 ])
            /\ UNCHANGED fastq_lis
       ELSE IF RunColumn(res.pkgs, {}) = << >>
       THEN Raise([ kind |-> "KeyError", description |-> "run", attempts |-> 0 ])
            /\ UNCHANGED fastq_lis
       ELSE /\ fastq_lis' = RunColumn(res.pkgs, {})
            /\ pc' = "runs_returned"
            /\ UNCHANGED err
    /\ UNCHANGED << retryVars, res >>
    /\ UNCHANGED << catalogVars, mainVars >>

-----------------------------------------------------------------------------
(* get_md5_from_ena, src/budding.py:138-197 *)

EmptyDic == [ k \in {} |-> << >> ]
NoPrev == [ requested |-> {}, absent |-> {}, fetched |-> EmptyDic,
            call |-> 0 ]

\* DicPut that keeps the value a key already has.
DicPutIfAbsent(d, k, v) ==
    [ x \in DOMAIN d \cup { k } |-> IF x \in DOMAIN d THEN d[x] ELSE v ]

DicPut(d, k, v) == [ x \in DOMAIN d \cup { k } |-> IF x = k THEN v ELSE d[x] ]

Perms(S) == { p \in [1..Cardinality(S) -> S] : Range(p) = S }

\* f.readlines(): the lines of the file, each with its newline.
RECURSIVE ReadLines(_)
ReadLines(s) ==
    IF s = << >> THEN << >>
    ELSE IF \A i \in 1..Len(s) : s[i] # NL THEN << s >>
    ELSE LET i == CHOOSE k \in 1..Len(s) :
                      s[k] = NL /\ \A j \in 1..(k - 1) : s[j] # NL
         IN  << SubSeq(s, 1, i) >> \o ReadLines(SubSeq(s, i + 1, Len(s)))

\* Lines 150-152: every line of the cache gives its key and sets the entry of
\* that key.  A line without a tab fails (IndexError) at line 152.
RECURSIVE LoadLines(_, _)
LoadLines(lines, st) ==
    IF lines = << >> \/ ~st.ok THEN st
    ELSE LET fields == Split(Head(lines), TAB)
         IN  IF Len(fields) < 2
             THEN [ st EXCEPT !.ok = FALSE ]
             ELSE LoadLines(Tail(lines),
                            [ ok |-> TRUE,
                              keys |-> st.keys \cup { fields[1] },
                              dic |-> DicPut(st.dic, fields[1],
                                             Split(fields[2], SEMI)) ])

LoadCacheFile(content) ==
    LoadLines(ReadLines(content), [ ok |-> TRUE, keys |-> {}, dic |-> EmptyDic ])

\* NeedQuery without the set difference.
NeedQueryAll(full, cached) == full

\* Line 154: the requested runs the cache does not hold.
NeedQuery(full, cached) == full \ cached

\* The answers of the file-report endpoint for one accession: a header line
\* and one data line "accession<TAB>md5;md5", or nothing at all (wget failed),
\* or the header alone, or a data line without a tab.
Header == << "run_accession", TAB, "fastq_md5" >>
Md5Fields == { << "a", SEMI, "b" >>, << "c" >> }
WellFormed(acc) == { Header \o << NL >> \o acc \o << TAB >> \o f \o << NL >> :
                       f \in Md5Fields }
Malformed(acc) == { << >>, Header \o << NL >>,
                    Header \o << NL >> \o acc \o << NL >> }
Responses(acc) == WellFormed(acc) \cup Malformed(acc)

\* The lists fetch_runs_from_bioproject can return: the 'run' column of every
\* document it parses without raising.
ResolvedLists ==
    { RunColumn(d.pkgs, {}) :
        d \in { x \in Docs : /\ x.kind = "xml"
                             /\ NoAttr \notin AllRunAccessions(x.pkgs)
                             /\ RunColumn(x.pkgs, {}) # << >> } }

\* The errors fetch_runs_from_bioproject can end with.
ResolveErrors ==
    { [ kind |-> "esearch", description |-> o, attempts |-> 1 ] :
        o \in SearchOutcomes \ { "good" } }
    \cup { [ kind |-> "Failed", description |-> "efetch_from_ids",
             attempts |-> num_retries ] }
    \cup { [ kind |-> k, description |-> "efetch", attempts |-> 0 ] :
             k \in { "ParseError", "RemoteError" } }
    \cup { [ kind |-> "KeyError", description |-> d, attempts |-> 0 ] :
             d \in { "accession", "run" } }

\* Lines 139-143 with the call of fetch_runs_from_bioproject taken as one step:
\* it returns one of the lists it can return.
FetchRuns(runs) ==
    /\ pc = "get_md5"
    /\ fastq_lis' = runs
    /\ pc' = "runs_returned"
    /\ UNCHANGED << err, retryVars, res >>
    /\ UNCHANGED << catalogVars, mainVars >>

\* The same call ending with an error.
FetchRunsFails(e) ==
    /\ pc = "get_md5"
    /\ Raise(e)
    /\ UNCHANGED << retryVars, res, fastq_lis >>
    /\ UNCHANGED << catalogVars, mainVars >>

\* The keys of the lines fetched in this call.
FetchedKeys == { Split(res_lis[i], TAB)[1] : i \in 1..Len(res_lis) }

\* What a call that returns its catalog (line 157 or 197) leaves to look back
\* on: the runs requested, those of them the cache did not hold, the
\* in-memory entries the call fetched, and which call it was.
Returned(requested, absent) ==
    [ requested |-> requested, absent |-> absent,
      fetched |-> [ k \in FetchedKeys |-> md5_dic[k] ], call |-> ncalls ]

\* LoadCache that takes a missing cache file for an empty one.
LoadCacheMissingAsEmpty ==
    /\ pc = "runs_returned"
    /\ cache
    /\ full_fastq_set' = Range(fastq_lis)
    /\ fastq_lis' = << >>
    /\ cache_reads' = cache_reads + 1
    /\ LET ld == LoadCacheFile(cache_file)
           need == NeedQuery(Range(fastq_lis), ld.keys)
       IN  /\ md5_dic' = ld.dic
           /\ IF ~ld.ok
              THEN /\ Raise([ kind |-> "IndexError", description |-> "cache",
                              attempts |-> 0 ])
                   /\ UNCHANGED << need_query_lis, prev_call >>
              ELSE IF need = {}
              THEN /\ pc' = "md5_returned"
                   /\ prev_call' = Returned(Range(fastq_lis), {})
                   /\ UNCHANGED << err, need_query_lis >>
              ELSE /\ need_query_lis' \in Perms(need)
                   /\ pc' = "query"
                   /\ UNCHANGED << err, prev_call >>
    /\ UNCHANGED << retryVars, res, cache, cache_exists, cache_file, res_lis,
                    queries, entry_file, ncalls >>
    /\ UNCHANGED mainVars

\* Lines 144-160, cache = True: read the cache and find the runs to query.
\* list(set) fixes the iteration order: any order.  fastq_lis is not read
\* again on this branch, full_fastq_set holds what it held.
LoadCache ==
    /\ pc = "runs_returned"
    /\ cache
    /\ full_fastq_set' = Range(fastq_lis)
    /\ fastq_lis' = << >>
    /\ cache_reads' = IF cache_exists THEN cache_reads + 1 ELSE cache_reads
    /\ IF ~cache_exists
       THEN /\ Raise([ kind |-> "FileNotFoundError", description |-> "open",
                       attempts |-> 0 ])
            /\ UNCHANGED << md5_dic, need_query_lis, prev_call >>
       ELSE LET ld == LoadCacheFile(cache_file)
                need == NeedQuery(Range(fastq_lis), ld.keys)
            IN  /\ md5_dic' = ld.dic
                /\ IF ~ld.ok
                   THEN /\ Raise([ kind |-> "IndexError", description |-> "cache",
                                   attempts |-> 0 ])
                        /\ UNCHANGED << need_query_lis, prev_call >>
                   ELSE IF need = {}
                   THEN /\ pc' = "md5_returned"
                        /\ prev_call' = Returned(Range(fastq_lis), {})
                        /\ UNCHANGED << err, need_query_lis >>
                   ELSE /\ need_query_lis' \in Perms(need)
                        /\ pc' = "query"
                        /\ UNCHANGED << err, prev_call >>
    /\ UNCHANGED << retryVars, res, cache, cache_exists, cache_file, res_lis,
                    queries, entry_file, ncalls >>
    /\ UNCHANGED mainVars

\* QueryStep that appends each fetched line to the cache file at once.
QueryStepWritesThrough(stdout) ==
    /\ pc = "query"
    /\ need_query_lis # << >>
    /\ LET fastq == Head(need_query_lis)
           fastq_ass == Split(fastq, US)[1]
           out_lines == Split(stdout, NL)
       IN  /\ stdout \in Responses(fastq_ass)
           /\ queries' = Append(queries, [ fastq |-> fastq, accession |-> fastq_ass,
                                           stdout |-> stdout ])
           /\ IF Len(out_lines) < 2
              THEN /\ Raise([ kind |-> "IndexError", description |-> "line",
                              attempts |-> 0 ])
                   /\ UNCHANGED << res_lis, md5_dic, need_query_lis, cache_file >>
              ELSE LET fields == Split(out_lines[2], TAB)
                   IN  /\ res_lis' = Append(res_lis, out_lines[2])
                       /\ cache_file' = cache_file \o out_lines[2] \o << NL >>
                       /\ IF Len(fields) < 2
                          THEN /\ Raise([ kind |-> "IndexError",
                                          description |-> "field", attempts |-> 0 ])
                               /\ UNCHANGED << md5_dic, need_query_lis >>
                          ELSE /\ md5_dic' = DicPut(md5_dic, fields[1],
                                                    Split(fields[2], SEMI))
                               /\ need_query_lis' = Tail(need_query_lis)
                               /\ UNCHANGED << pc, err >>
    /\ UNCHANGED << retryVars, res, fastq_lis, cache, cache_exists,
                    full_fastq_set, entry_file, ncalls, prev_call, cache_reads >>
    /\ UNCHANGED mainVars

\* Lines 162-170: one iteration of the query loop; stdout is what wget printed.
QueryStep(stdout) ==
    /\ pc = "query"
    /\ need_query_lis # << >>
    /\ LET fastq == Head(need_query_lis)
           fastq_ass == Split(fastq, US)[1]
           out_lines == Split(stdout, NL)
       IN  /\ stdout \in Responses(fastq_ass)
           /\ queries' = Append(queries, [ fastq |-> fastq, accession |-> fastq_ass,
                                           stdout |-> stdout ])
           /\ IF Len(out_lines) < 2
              THEN /\ Raise([ kind |-> "IndexError", description |-> "line",
                              attempts |-> 0 ])
                   /\ UNCHANGED << res_lis, md5_dic, need_query_lis >>
              ELSE LET fields == Split(out_lines[2], TAB)
                   IN  /\ res_lis' = Append(res_lis, out_lines[2])
                       /\ IF Len(fields) < 2
                          THEN /\ Raise([ kind |-> "IndexError",
                                          description |-> "field", attempts |-> 0 ])
                               /\ UNCHANGED << md5_dic, need_query_lis >>
                          ELSE /\ md5_dic' = DicPut(md5_dic, fields[1],
                                                    Split(fields[2], SEMI))
                               /\ need_query_lis' = Tail(need_query_lis)
                               /\ UNCHANGED << pc, err >>
    /\ UNCHANGED << retryVars, res, fastq_lis, cache, cache_exists, cache_file,
                    full_fastq_set, entry_file, ncalls, prev_call, cache_reads >>
    /\ UNCHANGED mainVars

\* WriteLines without the newline after each line.
RECURSIVE WriteLinesNoNewline(_)
WriteLinesNoNewline(lines) ==
    IF lines = << >> THEN << >>
    ELSE Head(lines) \o WriteLinesNoNewline(Tail(lines))

\* out.write(md5 + '\n') for every fetched line, lines 172-174.
RECURSIVE WriteLines(_)
WriteLines(lines) ==
    IF lines = << >> THEN << >>
    ELSE Head(lines) \o << NL >> \o WriteLines(Tail(lines))

\* Lines 172-174 and 196-197: the loop is over; append the fetched lines to
\* the cache and return the catalog.
AppendCache ==
    /\ pc = "query"
    /\ need_query_lis = << >>
    /\ cache_file' = cache_file \o WriteLines(res_lis)
    /\ cache_exists' = TRUE
    /\ prev_call' = Returned(full_fastq_set,
                             NeedQuery(full_fastq_set,
                                       LoadCacheFile(entry_file).keys))
    /\ pc' = "md5_returned"
    /\ UNCHANGED << err, retryVars, res, fastq_lis, cache, md5_dic, full_fastq_set,
                    need_query_lis, res_lis, queries, entry_file, ncalls,
                    cache_reads >>
    /\ UNCHANGED mainVars

\* Entering get_md5_from_ena (line 139): fresh locals.
BeginGetMd5(flag) ==
    /\ pc' = "get_md5"
    /\ err' = NoErr
    /\ cache' = flag
    /\ md5_dic' = EmptyDic
    /\ fastq_lis' = << >>
    /\ full_fastq_set' = {}
    /\ need_query_lis' = << >>
    /\ res_lis' = << >>
    /\ queries' = << >>
    /\ entry_file' = cache_file
    /\ ncalls' = ncalls + 1
    /\ cache_reads' = 0
    /\ UNCHANGED << retryVars, res, cache_exists, cache_file, prev_call >>

\* get_md5_from_ena(accession) called again, as validate calls it (line 212),
\* against the cache file the earlier calls left.
CallGetMd5 ==
    /\ pc \in { "idle", "md5_returned", "raised" }
    /\ ncalls < MaxCalls
    /\ BeginGetMd5(TRUE)
    /\ UNCHANGED mainVars

\* SkipCache that loads the cache into the catalog all the same.
SkipCacheLoadsCache ==
    /\ pc = "runs_returned"
    /\ ~cache
    /\ need_query_lis' = fastq_lis
    /\ md5_dic' = LoadCacheFile(cache_file).dic
    /\ cache_reads' = cache_reads + 1
    /\ pc' = "query_all"
    /\ UNCHANGED << err, retryVars, res, fastq_lis, cache, cache_exists,
                    cache_file, full_fastq_set, res_lis, queries,
                    entry_file, ncalls, prev_call >>
    /\ UNCHANGED mainVars

\* Lines 176-180, cache = False: the cache is not opened; the loop goes over
\* fastq_lis itself, in its order and with its repetitions.
SkipCache ==
    /\ pc = "runs_returned"
    /\ ~cache
    /\ need_query_lis' = fastq_lis
    /\ pc' = "query_all"
    /\ UNCHANGED << err, retryVars, res, fastq_lis, cache, cache_exists,
                    cache_file, md5_dic, full_fastq_set, res_lis, queries,
                    entry_file, ncalls, prev_call, cache_reads >>
    /\ UNCHANGED mainVars

\* Lines 181-189: one iteration of the loop of the cache = False branch, the
\* same statements as lines 162-170.
QueryAllStep(stdout) ==
    /\ pc = "query_all"
    /\ need_query_lis # << >>
    /\ LET fastq == Head(need_query_lis)
           fastq_ass == Split(fastq, US)[1]
           out_lines == Split(stdout, NL)
       IN  /\ stdout \in Responses(fastq_ass)
           /\ queries' = Append(queries, [ fastq |-> fastq, accession |-> fastq_ass,
                                           stdout |-> stdout ])
           /\ IF Len(out_lines) < 2
              THEN /\ Raise([ kind |-> "IndexError", description |-> "line",
                              attempts |-> 0 ])
                   /\ UNCHANGED << res_lis, md5_dic, need_query_lis >>
              ELSE LET fields == Split(out_lines[2], TAB)
                   IN  /\ res_lis' = Append(res_lis, out_lines[2])
                       /\ IF Len(fields) < 2
                          THEN /\ Raise([ kind |-> "IndexError",
                                          description |-> "field", attempts |-> 0 ])
                               /\ UNCHANGED << md5_dic, need_query_lis >>
                          ELSE /\ md5_dic' = DicPut(md5_dic, fields[1],
                                                    Split(fields[2], SEMI))
                               /\ need_query_lis' = Tail(need_query_lis)
                               /\ UNCHANGED << pc, err >>
    /\ UNCHANGED << retryVars, res, fastq_lis, cache, cache_exists, cache_file,
                    full_fastq_set, entry_file, ncalls, prev_call, cache_reads >>
    /\ UNCHANGED mainVars

\* AppendCacheAll opening the cache in mode 'w': the fetched lines replace
\* the content.
AppendCacheAllTruncates ==
    /\ pc = "query_all"
    /\ need_query_lis = << >>
    /\ cache_file' = WriteLines(res_lis)
    /\ cache_exists' = TRUE
    /\ prev_call' = Returned(Range(fastq_lis), Range(fastq_lis))
    /\ pc' = "md5_returned"
    /\ UNCHANGED << err, retryVars, res, fastq_lis, cache, md5_dic, full_fastq_set,
                    need_query_lis, res_lis, queries, entry_file, ncalls,
                    cache_reads >>
    /\ UNCHANGED mainVars

\* Lines 191-193 and 196-197: the loop is over; append the fetched lines to
\* the cache (mode 'a' creates a missing file) and return the catalog.
AppendCacheAll ==
    /\ pc = "query_all"
    /\ need_query_lis = << >>
    /\ cache_file' = cache_file \o WriteLines(res_lis)
    /\ cache_exists' = TRUE
    /\ prev_call' = Returned(Range(fastq_lis), Range(fastq_lis))
    /\ pc' = "md5_returned"
    /\ UNCHANGED << err, retryVars, res, fastq_lis, cache, md5_dic, full_fastq_set,
                    need_query_lis, res_lis, queries, entry_file, ncalls,
                    cache_reads >>
    /\ UNCHANGED mainVars

\* get_md5_from_ena(accession, cache) called once with either value of cache.
CallGetMd5With(flag) ==
    /\ pc = "idle"
    /\ BeginGetMd5(flag)
    /\ UNCHANGED mainVars

-----------------------------------------------------------------------------
(* validate, src/budding.py:208-230, and main, src/budding.py:235-244 *)

\* Names a downloaded file may have.
FileNames == { << "SRR1", US, "1", DOT, "fastq" >>,
               << "SRR1", US, "2", DOT, "fastq" >>,
               << "SRR1", US, "0", DOT, "fastq" >>,
               << "SRR1", US, "3", DOT, "fastq" >>,
               << "SRR9", US, "1", DOT, "fastq" >>,
               << "SRR1", US, "x", DOT, "fastq" >>,
               << "notes", DOT, "txt" >> }

\* hexdigest values check_md5sum may compute.
Hashes == { << "a" >>, << "b" >>, << "c" >> }

\* os.listdir: the names of the directory, each once, in any order.
Listings == { l \in SeqsUpTo(FileNames, MaxFiles) :
                \A i, j \in 1..Len(l) : i # j => l[i] # l[j] }

\* int(s): the strings int accepts among those that occur as index
\* segments, and their values; any other string raises ValueError.
IsInt(s) == s \in { << "0" >>, << "1" >>, << "2" >>, << "3" >> }

ToInt(s) ==
    IF s = << "0" >> THEN 0
    ELSE IF s = << "1" >> THEN 1
    ELSE IF s = << "2" >> THEN 2
    ELSE 3

\* s.replace("\n", "")
RECURSIVE StripNL(_)
StripNL(s) ==
    IF s = << >> THEN << >>
    ELSE IF Head(s) = NL THEN StripNL(Tail(s))
    ELSE << Head(s) >> \o StripNL(Tail(s))

\* lst[i] of Python, i being any integer: a negative i counts from the end.
\* The result is the 1-based position read, or 0 for IndexError.
PyIndex(lst, i) ==
    IF 0 <= i /\ i < Len(lst) THEN i + 1
    ELSE IF i < 0 /\ 0 - i <= Len(lst) THEN Len(lst) + i + 1
    ELSE 0

\* Lines 216-222 for one file name: the error the lookup raises, or the
\* expected checksum.
Expected(fastq, dic) ==
    LET ass == Split(fastq, US)[1]
        parts == Split(Split(fastq, DOT)[1], US)
    IN  IF Len(parts) < 2
        THEN [ error |-> "IndexError", md5 |-> << >>, pos |-> 0 ]
        ELSE IF ~IsInt(parts[2])
        THEN [ error |-> "ValueError", md5 |-> << >>, pos |-> 0 ]
        ELSE IF ass \notin DOMAIN dic
        THEN [ error |-> "KeyError", md5 |-> << >>, pos |-> 0 ]
        ELSE LET k == PyIndex(dic[ass], ToInt(parts[2]) - 1)
             IN  IF k = 0
                 THEN [ error |-> "IndexError", md5 |-> << >>, pos |-> 0 ]
                 ELSE [ error |-> "", md5 |-> StripNL(dic[ass][k]), pos |-> k ]

\* main, line 243: zip of the two argument lists.
Zip(nacc, ndir) ==
    [ i \in 1..(IF nacc < ndir THEN nacc ELSE ndir) |->
        [ accession |-> << "PRJNA", i >>, dir |-> << "dir", i >> ] ]

\* Lines 243-244 and 209-212: the next pair; validate lists its directory and
\* calls get_md5_from_ena(accession).
ValidateStart(listing) ==
    /\ pc = "main"
    /\ pair_idx <= Len(pairs)
    /\ started' = started \cup { pair_idx }
    /\ fastq_files' = listing
    /\ file_idx' = 1
    /\ fail_cnt' = 0
    /\ actual_md5s' = << >>
    /\ BeginGetMd5(TRUE)
    /\ UNCHANGED << pairs, pair_idx, summaries, exit_code >>

\* The same with a directory that cannot be listed (line 210).
ValidateNoDir ==
    /\ pc = "main"
    /\ pair_idx <= Len(pairs)
    /\ started' = started \cup { pair_idx }
    /\ Raise([ kind |-> "FileNotFoundError", description |-> "listdir",
               attempts |-> 0 ])
    /\ UNCHANGED << retryVars, res, fastq_lis, catalogVars >>
    /\ UNCHANGED << pairs, pair_idx, fastq_files, file_idx, fail_cnt,
                    actual_md5s, summaries, exit_code >>

\* The file name fits <base>_<index>.<ext> with an integer index: lines
\* 216-217 raise nothing.
WellNamed(fastq) ==
    LET parts == Split(Split(fastq, DOT)[1], US)
    IN  Len(parts) >= 2 /\ IsInt(parts[2])

\* CheckFile passing over a file whose name does not parse.
CheckFileSkipsBadName(actual_md5) ==
    /\ pc = "md5_returned"
    /\ file_idx <= Len(fastq_files)
    /\ IF WellNamed(fastq_files[file_idx])
       THEN LET e == Expected(fastq_files[file_idx], md5_dic)
            IN  /\ actual_md5s' = Append(actual_md5s, actual_md5)
                /\ IF e.error # ""
                   THEN /\ Raise([ kind |-> e.error, description |-> "validate",
                                   attempts |-> 0 ])
                        /\ UNCHANGED << file_idx, fail_cnt >>
                   ELSE /\ fail_cnt' = IF actual_md5 = e.md5
                                       THEN fail_cnt ELSE fail_cnt + 1
                        /\ file_idx' = file_idx + 1
                        /\ UNCHANGED << pc, err >>
       ELSE /\ file_idx' = file_idx + 1
            /\ UNCHANGED << pc, err, fail_cnt, actual_md5s >>
    /\ UNCHANGED << retryVars, res, fastq_lis, catalogVars >>
    /\ UNCHANGED << pairs, pair_idx, fastq_files, started, summaries, exit_code >>

\* CheckFile with a flag in place of the counter: a mismatch sets fail_cnt to 1.
CheckFileFlagsMismatch(actual_md5) ==
    /\ pc = "md5_returned"
    /\ file_idx <= Len(fastq_files)
    /\ actual_md5s' = IF WellNamed(fastq_files[file_idx])
                      THEN Append(actual_md5s, actual_md5)
                      ELSE actual_md5s
    /\ LET e == Expected(fastq_files[file_idx], md5_dic)
       IN  IF e.error # ""
           THEN /\ Raise([ kind |-> e.error, description |-> "validate",
                           attempts |-> 0 ])
                /\ UNCHANGED << file_idx, fail_cnt >>
           ELSE /\ fail_cnt' = IF actual_md5 = e.md5 THEN fail_cnt ELSE 1
                /\ file_idx' = file_idx + 1
                /\ UNCHANGED << pc, err >>
    /\ UNCHANGED << retryVars, res, fastq_lis, catalogVars >>
    /\ UNCHANGED << pairs, pair_idx, fastq_files, started, summaries, exit_code >>

\* Lines 215-227: one iteration of the file loop; actual_md5 is the hash of
\* the file's content, computed (line 220) once the name is parsed.
CheckFile(actual_md5) ==
    /\ pc = "md5_returned"
    /\ file_idx <= Len(fastq_files)
    /\ actual_md5s' = IF WellNamed(fastq_files[file_idx])
                      THEN Append(actual_md5s, actual_md5)
                      ELSE actual_md5s
    /\ LET e == Expected(fastq_files[file_idx], md5_dic)
       IN  IF e.error # ""
           THEN /\ Raise([ kind |-> e.error, description |-> "validate",
                           attempts |-> 0 ])
                /\ UNCHANGED << file_idx, fail_cnt >>
           ELSE /\ fail_cnt' = IF actual_md5 = e.md5 THEN fail_cnt ELSE fail_cnt + 1
                /\ file_idx' = file_idx + 1
                /\ UNCHANGED << pc, err >>
    /\ UNCHANGED << retryVars, res, fastq_lis, catalogVars >>
    /\ UNCHANGED << pairs, pair_idx, fastq_files, started, summaries, exit_code >>

\* Lines 228-230: the summary; validate returns None and main goes on.
ValidateDone ==
    /\ pc = "md5_returned"
    /\ file_idx > Len(fastq_files)
    /\ summaries' = Append(summaries, fail_cnt)
    /\ pair_idx' = pair_idx + 1
    /\ pc' = "main"
    /\ UNCHANGED << err, retryVars, res, fastq_lis, catalogVars >>
    /\ UNCHANGED << pairs, fastq_files, file_idx, fail_cnt, started, actual_md5s,
                    exit_code >>

ExitOk == "0"
ExitFail == "1"

\* Line 249: main returned; the interpreter exits with status 0.
MainExit ==
    /\ pc = "main"
    /\ pair_idx > Len(pairs)
    /\ exit_code' = ExitOk
    /\ pc' = "exited"
    /\ UNCHANGED << err, retryVars, res, fastq_lis, catalogVars >>
    /\ UNCHANGED << pairs, pair_idx, fastq_files, file_idx, fail_cnt, started,
                    actual_md5s, summaries >>

\* No frame between the raise and line 249 catches: the interpreter prints the
\* traceback and exits with status 1.
Uncaught ==
    /\ pc = "raised"
    /\ exit_code' = ExitFail
    /\ pc' = "exited"
    /\ UNCHANGED << err, retryVars, res, fastq_lis, catalogVars >>
    /\ UNCHANGED << pairs, pair_idx, fastq_files, file_idx, fail_cnt, started,
                    actual_md5s, summaries >>

-----------------------------------------------------------------------------
(* Initial states *)

RetryInit ==
    /\ rr_i = 0
    /\ rr_calls = 0
    /\ rr_sleeps = 0
    /\ rr_slept = 0
    /\ rr_outcomes = << >>

CatalogIdle ==
    /\ cache = TRUE
    /\ md5_dic = EmptyDic
    /\ full_fastq_set = {}
    /\ need_query_lis = << >>
    /\ res_lis = << >>
    /\ queries = << >>
    /\ entry_file = << >>
    /\ ncalls = 0
    /\ prev_call = NoPrev
    /\ cache_reads = 0

MainIdle ==
    /\ pairs = << >>
    /\ pair_idx = 1
    /\ fastq_files = << >>
    /\ file_idx = 1
    /\ fail_cnt = 0
    /\ started = {}
    /\ actual_md5s = << >>
    /\ summaries = << >>
    /\ exit_code = NoExit

\* fetch_runs_from_bioproject called on its own.
ResolveInit ==
    /\ pc = "esearch"
    /\ err = NoErr
    /\ RetryInit
    /\ res = NoRes
    /\ fastq_lis = << >>
    /\ cache_exists = FALSE
    /\ cache_file = << >>
    /\ CatalogIdle
    /\ MainIdle

ResolveNext ==
    \/ \E o \in SearchOutcomes : Esearch(o)
    \/ \E doc \in Docs : RetryOk(doc)
    \/ RetryNotOk
    \/ RetryRaise
    \/ RetryExhausted
    \/ ParseRuns

SpecResolve == ResolveInit /\ [][ResolveNext]_vars

\* get_md5_from_ena called up to MaxCalls times against one cache file, which
\* at first is missing or empty.
CatalogInit ==
    /\ pc = "idle"
    /\ err = NoErr
    /\ RetryInit
    /\ res = NoRes
    /\ fastq_lis = << >>
    /\ cache_exists \in BOOLEAN
    /\ cache_file = << >>
    /\ CatalogIdle
    /\ MainIdle

CatalogNext ==
    \/ CallGetMd5
    \/ \E runs \in ResolvedLists : FetchRuns(runs)
    \/ \E e \in ResolveErrors : FetchRunsFails(e)
    \/ LoadCache
    \/ \E acc \in RunIds : \E stdout \in Responses(Split(acc, US)[1]) :
           QueryStep(stdout)
    \/ AppendCache

SpecCatalog == CatalogInit /\ [][CatalogNext]_vars

\* The lines earlier calls can have appended to the cache (lines 172-174 and
\* 191-193): data lines of file-report answers for one accession.
SeedLines == { SRR1 \o << TAB >> \o f : f \in Md5Fields }

\* The cache contents a call can find: up to MaxLines such lines.
SeedCaches == { WriteLines(ls) : ls \in SeqsUpTo(SeedLines, MaxLines) }

\* One call of get_md5_from_ena, with or without the cache, against a cache
\* file that is missing or holds what earlier calls left.
AnyCacheInit ==
    /\ pc = "idle"
    /\ err = NoErr
    /\ RetryInit
    /\ res = NoRes
    /\ fastq_lis = << >>
    /\ cache_exists \in BOOLEAN
    /\ cache_file \in IF cache_exists THEN SeedCaches ELSE { << >> }
    /\ CatalogIdle
    /\ MainIdle

AnyCacheNext ==
    \/ \E flag \in BOOLEAN : CallGetMd5With(flag)
    \/ \E runs \in ResolvedLists : FetchRuns(runs)
    \/ \E e \in ResolveErrors : FetchRunsFails(e)
    \/ LoadCache
    \/ \E acc \in RunIds : \E stdout \in Responses(Split(acc, US)[1]) :
           QueryStep(stdout)
    \/ AppendCache
    \/ SkipCache
    \/ \E acc \in RunIds : \E stdout \in Responses(Split(acc, US)[1]) :
           QueryAllStep(stdout)
    \/ AppendCacheAll

SpecAnyCache == AnyCacheInit /\ [][AnyCacheNext]_vars

\* The program: main over up to MaxPairs pairs; the cache file is missing or
\* holds nothing yet.
Init ==
    /\ pc = "main"
    /\ err = NoErr
    /\ RetryInit
    /\ res = NoRes
    /\ fastq_lis = << >>
    /\ cache_exists \in BOOLEAN
    /\ cache_file = << >>
    /\ CatalogIdle
    /\ \E nacc, ndir \in 0..MaxPairs : pairs = Zip(nacc, ndir)
    /\ pair_idx = 1
    /\ fastq_files = << >>
    /\ file_idx = 1
    /\ fail_cnt = 0
    /\ started = {}
    /\ actual_md5s = << >>
    /\ summaries = << >>
    /\ exit_code = NoExit

Next ==
    \/ \E listing \in Listings : ValidateStart(listing)
    \/ ValidateNoDir
    \/ \E runs \in ResolvedLists : FetchRuns(runs)
    \/ \E e \in ResolveErrors : FetchRunsFails(e)
    \/ LoadCache
    \/ \E acc \in RunIds : \E stdout \in Responses(Split(acc, US)[1]) :
           QueryStep(stdout)
    \/ AppendCache
    \/ \E h \in Hashes : CheckFile(h)
    \/ ValidateDone
    \/ MainExit
    \/ Uncaught

Spec == Init /\ [][Next]_vars

\* The program run on one pair, the first time (no cache file yet) or with an
\* empty cache file.
FirstRunInit ==
    /\ pc = "main"
    /\ err = NoErr
    /\ RetryInit
    /\ res = NoRes
    /\ fastq_lis = << >>
    /\ cache_exists \in BOOLEAN
    /\ cache_file = << >>
    /\ CatalogIdle
    /\ pairs = Zip(1, 1)
    /\ pair_idx = 1
    /\ fastq_files = << >>
    /\ file_idx = 1
    /\ fail_cnt = 0
    /\ started = {}
    /\ actual_md5s = << >>
    /\ summaries = << >>
    /\ exit_code = NoExit

SpecFirstRun == FirstRunInit /\ [][Next]_vars

\* The catalogs get_md5_from_ena can return (lines 196-197): entries keyed by
\* base accession, each the list of checksums of a file-report answer (line
\* 170) or of a cache line (line 152), whose last checksum keeps the newline.
CatalogEntries ==
    { Split(f, SEMI) : f \in Md5Fields \cup { g \o << NL >> : g \in Md5Fields } }

Catalogs ==
    { d \in UNION { [ K -> CatalogEntries ] :
                      K \in SUBSET { Split(r, US)[1] : r \in RunIds } } :
        DOMAIN d # {} }

\* validate on its own, from line 214 on: the directory is listed (line 210)
\* and the catalog returned (line 212); main has this one pair.
ValidateInit ==
    /\ pc = "md5_returned"
    /\ err = NoErr
    /\ RetryInit
    /\ res = NoRes
    /\ fastq_lis = << >>
    /\ cache_exists = TRUE
    /\ cache_file = << >>
    /\ cache = TRUE
    /\ md5_dic \in Catalogs
    /\ full_fastq_set = {}
    /\ need_query_lis = << >>
    /\ res_lis = << >>
    /\ queries = << >>
    /\ entry_file = << >>
    /\ ncalls = 1
    /\ prev_call = NoPrev
    /\ cache_reads = 1
    /\ pairs = Zip(1, 1)
    /\ pair_idx = 1
    /\ fastq_files \in Listings
    /\ file_idx = 1
    /\ fail_cnt = 0
    /\ started = { 1 }
    /\ actual_md5s = << >>
    /\ summaries = << >>
    /\ exit_code = NoExit

ValidateNext ==
    \/ \E h \in Hashes : CheckFile(h)
    \/ ValidateDone
    \/ MainExit
    \/ Uncaught

SpecValidate == ValidateInit /\ [][ValidateNext]_vars

-----------------------------------------------------------------------------
(* Run resolution *)

\* C1: the set of run identifiers fetch_runs_from_bioproject returns equals
\* the set of accessions of all RUN elements of all records of the document.
C1_AllRunsReturned ==
    pc = "runs_returned" => Range(fastq_lis) = AllRunAccessions(res.pkgs)

-----------------------------------------------------------------------------
(* validate and main *)

\* The catalog has no entry for the file's base accession, or the file's
\* 1-based index lies outside 1..len(entry).
NoChecksumFor(fastq, dic) ==
    LET ass == Split(fastq, US)[1]
        dig == ToInt(Split(Split(fastq, DOT)[1], US)[2])
    IN  ass \notin DOMAIN dic \/ dig \notin 1..Len(dic[ass])

\* C2: a file without a catalog entry, or with an index out of 1..len(entry),
\* is counted as exactly one mismatch, without a crash, and validate goes on
\* with the next file.
C2_MissingEntryIsOneMismatch ==
    [][ ( /\ pc = "md5_returned"
          /\ file_idx <= Len(fastq_files)
          /\ WellNamed(fastq_files[file_idx])
          /\ NoChecksumFor(fastq_files[file_idx], md5_dic) )
        => ( /\ pc' = "md5_returned"
             /\ fail_cnt' = fail_cnt + 1
             /\ file_idx' = file_idx + 1 ) ]_vars

\* C3: whatever fails for one pair, validate is started for every pair of the
\* invocation by the time the process ends.
C3_EveryPairStarted ==
    pc = "exited" => started = 1..Len(pairs)

\* C4: the process reports success exactly if every pair was validated with a
\* mismatch count of zero.
C4_SuccessIffNoMismatch ==
    pc = "exited" =>
        ( exit_code = ExitOk <=>
            ( /\ Len(summaries) = Len(pairs)
              /\ \A k \in 1..Len(summaries) : summaries[k] = 0 ) )

-----------------------------------------------------------------------------
(* Retry executor *)

AllFailed == \A i \in 1..Len(rr_outcomes) : rr_outcomes[i].kind # "ok"

\* C5: an operation that fails on each of its attempts, raising or answering
\* not OK in any mix, is invoked exactly 3 times; nothing is returned, and the
\* executor ends with the error that names the description and the 3 attempts.
C5_AlwaysFailingRaisesAfterThree ==
    /\ rr_calls = Len(rr_outcomes)
    /\ rr_calls <= 3
    /\ AllFailed => /\ res = NoRes
                    /\ pc \in { "esearch", "efetch", "raised" }
    /\ (AllFailed /\ rr_calls = 3 /\ pc = "raised")
           => err = [ kind |-> "Failed", description |-> "efetch_from_ids",
                      attempts |-> 3 ]
    /\ (pc = "raised" /\ err.kind = "Failed") => (AllFailed /\ rr_calls = 3)

C5_Witness ==
    /\ pc = "raised"
    /\ err.kind = "Failed"
    /\ rr_calls = 3
    /\ \E i, j \in 1..Len(rr_outcomes) :
           rr_outcomes[i].kind = "raise" /\ rr_outcomes[j].kind = "notok"

\* C6: the executor returns the first successful result: the attempt that
\* succeeds is the last one made, its response is what is returned, and one
\* sleep was taken for every failed attempt before it (two failures, then a
\* success: 3 invocations, 2 sleeps).
C6_ReturnsFirstSuccess ==
    \A i \in 1..Len(rr_outcomes) :
        rr_outcomes[i].kind = "ok" =>
            /\ i = Len(rr_outcomes)
            /\ pc # "efetch"
            /\ res = rr_outcomes[i].body
            /\ rr_calls = i
            /\ rr_sleeps = i - 1
            /\ rr_slept = sleep_time * (i - 1)

C6_Witness ==
    /\ pc = "parse"
    /\ Len(rr_outcomes) = 3
    /\ rr_outcomes[1].kind = "raise"
    /\ rr_outcomes[2].kind = "notok"
    /\ rr_outcomes[3].kind = "ok"
    /\ res.kind = "xml"
    /\ res.pkgs # << >>
    /\ rr_calls = 3
    /\ rr_sleeps = 2

-----------------------------------------------------------------------------
(* Checksum catalog *)

CacheKeys(content) == LoadCacheFile(content).keys

\* The checksums of a cache line or of a data line of a response, newlines
\* apart.
Checksums(line) ==
    LET md5s == Split(Split(line, TAB)[2], SEMI)
    IN  [ i \in 1..Len(md5s) |-> StripNL(md5s[i]) ]

\* C7: with cache = True no file-report query is issued for a requested run
\* identifier that is the key of a line the cache held when the call began; if
\* every requested identifier is such a key, no query is issued at all and
\* nothing is appended to the cache.
C7_NoQueryForCachedRun ==
    cache =>
        /\ \A i \in 1..Len(queries) :
               queries[i].fastq \notin CacheKeys(entry_file)
        /\ full_fastq_set \subseteq CacheKeys(entry_file)
               => (queries = << >> /\ cache_file = entry_file)

C7_Witness ==
    /\ pc = "md5_returned"
    /\ cache
    /\ full_fastq_set # {}
    /\ full_fastq_set \subseteq CacheKeys(entry_file)
    /\ queries = << >>
    /\ DOMAIN md5_dic # {}

\* C8: when a call with cache = True returns, the cache holds, for every
\* requested run identifier it did not hold before, a line keyed by that
\* identifier with the checksums the remote returned for it; and a later call
\* with the same requested identifiers issues no query for such an identifier.
C8_WarmCacheIdempotent ==
    /\ (pc = "md5_returned" /\ cache) =>
           \A i \in 1..Len(queries) :
               \E l \in Range(ReadLines(cache_file)) :
                   /\ Split(l, TAB)[1] = queries[i].fastq
                   /\ Checksums(l) = Checksums(Split(queries[i].stdout, NL)[2])
    /\ ( /\ cache
         /\ prev_call.call > 0
         /\ prev_call.call < ncalls
         /\ full_fastq_set = prev_call.requested ) =>
           \A i \in 1..Len(queries) : queries[i].fastq \notin prev_call.absent

\* C9: within one call, an entry the in-memory catalog holds is never replaced
\* by a different checksum list.
C9_EntryNeverReplaced ==
    [][ ncalls' = ncalls =>
            \A k \in DOMAIN md5_dic :
                k \in DOMAIN md5_dic' /\ md5_dic'[k] = md5_dic[k] ]_vars

\* The state a call is in when it has just read the cache.
JustLoaded == pc \in { "query", "md5_returned" } /\ queries = << >> /\ cache

\* The next call has reloaded the cache the last returned call left.
Reloaded == JustLoaded /\ prev_call.call > 0 /\ prev_call.call < ncalls

\* C10 as stated: the entries the last returned call fetched and appended are
\* reloaded by the next call as exactly the same sequences of checksum
\* strings, the same string at every index.
C10_CacheRoundTrip ==
    Reloaded =>
        \A k \in DOMAIN prev_call.fetched :
            k \in DOMAIN md5_dic /\ md5_dic[k] = prev_call.fetched[k]

\* C10 as amended: the entries the last returned call fetched and appended
\* are reloaded by the next call with the same length and, newline characters
\* removed, the same string at every index.
C10_CacheRoundTripModuloNewline ==
    Reloaded =>
        \A k \in DOMAIN prev_call.fetched :
            /\ k \in DOMAIN md5_dic
            /\ Len(md5_dic[k]) = Len(prev_call.fetched[k])
            /\ \A i \in 1..Len(md5_dic[k]) :
                   StripNL(md5_dic[k][i]) = prev_call.fetched[k][i]

C10_Witness ==
    /\ Reloaded
    /\ \E k \in DOMAIN prev_call.fetched :
           /\ Len(prev_call.fetched[k]) = 2
           /\ md5_dic[k][1] = prev_call.fetched[k][1]
           /\ md5_dic[k][2] = prev_call.fetched[k][2] \o << NL >>

-----------------------------------------------------------------------------
(* File names, counts and positions in validate *)

BadlyNamed(listing) == { i \in 1..Len(listing) : ~WellNamed(listing[i]) }

\* C11: when the directory holds a file whose name has no underscore or no
\* integer index, the file loop never gets past that file and validate never
\* prints a summary for the directory; once the loop has stopped it has
\* stopped with the error of that file.
C11_BadNameFailsTheRun ==
    BadlyNamed(fastq_files) # {} =>
        /\ summaries = << >>
        /\ exit_code # ExitOk
        /\ \A i \in BadlyNamed(fastq_files) : file_idx <= i
        /\ pc = "raised" /\ file_idx \in BadlyNamed(fastq_files)
              => err.kind \in { "IndexError", "ValueError" }

C11_Witness ==
    /\ pc = "raised"
    /\ file_idx = 2
    /\ file_idx \in BadlyNamed(fastq_files)
    /\ err.kind = "ValueError"
    /\ fail_cnt = 1

BaseOf(fastq) == Split(fastq, US)[1]
IndexOf(fastq) == ToInt(Split(Split(fastq, DOT)[1], US)[2])

\* The file is well named and the catalog entry of its base accession has a
\* checksum at its index.
InRange(fastq, dic) ==
    /\ WellNamed(fastq)
    /\ BaseOf(fastq) \in DOMAIN dic
    /\ IndexOf(fastq) \in 1..Len(dic[BaseOf(fastq)])

\* The checksum the catalog expects of the file: the one at its index,
\* counted from 1, without the newline a cache line leaves on it.
KthChecksum(fastq, dic) == StripNL(dic[BaseOf(fastq)][IndexOf(fastq)])

\* The files checked so far whose hash differs from the expected checksum.
Differing ==
    { i \in 1..Len(actual_md5s) :
        actual_md5s[i] # KthChecksum(fastq_files[i], md5_dic) }

\* C12: in a directory whose files are all well named with an in-range
\* catalog entry, validate never raises, the failure count is at every moment
\* the number of checked files whose hash differs from the expected checksum,
\* and the count of the summary is that number over all the files.
C12_CountIsNumberOfDifferingFiles ==
    (\A i \in 1..Len(fastq_files) : InRange(fastq_files[i], md5_dic)) =>
        /\ pc # "raised"
        /\ Len(actual_md5s) = file_idx - 1
        /\ fail_cnt = Cardinality(Differing)
        /\ summaries # << >> =>
              /\ Len(actual_md5s) = Len(fastq_files)
              /\ summaries = << Cardinality(Differing) >>

C12_Witness ==
    /\ \A i \in 1..Len(fastq_files) : InRange(fastq_files[i], md5_dic)
    /\ Len(fastq_files) = MaxFiles
    /\ summaries = << 1 >>
    /\ Cardinality(Differing) = 1

-----------------------------------------------------------------------------
(* Requests of the run resolution *)

\* The resolution ended because a request failed in transit or came back
\* not OK.
RequestFailure ==
    /\ pc = "raised"
    /\ \/ err.kind = "Failed"
       \/ err.kind = "esearch" /\ err.description \in { "raise", "notok" }

\* C13: both requests of the run resolution, the search and the fetch by
\* session, go through the retry executor: the resolution fails on a failing
\* request only after that request was attempted num_retries times, never
\* after a single failure.
C13_BothRequestsRetried ==
    RequestFailure => err.attempts = num_retries

-----------------------------------------------------------------------------
(* The cache file across calls *)

LineKey(line) == Split(line, TAB)[1]
LineChecksums(line) == Split(Split(line, TAB)[2], SEMI)

\* The positions of the lines of the file that no later line of the same key
\* follows.
LastOfKey(lines) ==
    { i \in 1..Len(lines) :
        \A j \in (i + 1)..Len(lines) : LineKey(lines[j]) # LineKey(lines[i]) }

\* C14: when the cache is loaded, the catalog holds exactly the keys of the
\* file's lines and, for a key that several lines carry, the checksums of the
\* last of them in file order; the entries of the other keys are those of
\* their own lines.
C14_LastDuplicateWins ==
    JustLoaded =>
        LET lines == ReadLines(entry_file)
        IN  /\ DOMAIN md5_dic = { LineKey(lines[i]) : i \in 1..Len(lines) }
            /\ \A i \in LastOfKey(lines) :
                   md5_dic[LineKey(lines[i])] = LineChecksums(lines[i])

C14_Witness ==
    /\ JustLoaded
    /\ LET lines == ReadLines(entry_file)
       IN  \E i, j \in 1..Len(lines) :
               /\ i < j
               /\ j \in LastOfKey(lines)
               /\ LineKey(lines[i]) = LineKey(lines[j])
               /\ LineChecksums(lines[i]) # LineChecksums(lines[j])

IsPrefix(a, b) == Len(a) <= Len(b) /\ SubSeq(b, 1, Len(a)) = a

\* What the cache holds beyond what it held when the call began.
Added == SubSeq(cache_file, Len(entry_file) + 1, Len(cache_file))

\* The data line of the answer to the i-th query of the call.
DataLine(i) == Split(queries[i].stdout, NL)[2]

\* The lines added are one line per query of the call, in query order: the
\* data line of the answer, for the accession queried, and its newline.
OneLinePerQuery ==
    LET lines == ReadLines(Added)
    IN  /\ Len(lines) = Len(queries)
        /\ \A i \in 1..Len(lines) :
               /\ lines[i] = DataLine(i) \o << NL >>
               /\ LineKey(lines[i]) = queries[i].accession

\* C15: get_md5_from_ena, with the cache or without it, only appends to the
\* cache file: what the file held when the call began is a prefix of what it
\* holds at any later moment of the call, nothing is added before the call
\* returns, and what a returning call has added is one line per run it
\* queried.
C15_CacheAppendOnly ==
    ncalls > 0 =>
        /\ IsPrefix(entry_file, cache_file)
        /\ pc # "md5_returned" => cache_file = entry_file
        /\ pc = "md5_returned" => OneLinePerQuery

C15_Witness ==
    /\ pc = "md5_returned"
    /\ ~cache
    /\ Len(ReadLines(entry_file)) = MaxLines
    /\ Len(ReadLines(Added)) = 2
    /\ \E i \in 1..Len(queries) : queries[i].accession = LineKey(ReadLines(entry_file)[1])

\* C17 as stated: a call with cache = False that returns has not read the
\* cache, has made exactly one query for every run identifier requested, holds
\* only entries its queries returned, and has appended the fetched lines.
C17_OneQueryPerRun ==
    (pc = "md5_returned" /\ ~cache) =>
        /\ cache_reads = 0
        /\ \A r \in Range(fastq_lis) :
               Cardinality({ i \in 1..Len(queries) : queries[i].fastq = r }) = 1
        /\ \A k \in DOMAIN md5_dic :
               \E i \in 1..Len(queries) :
                   LineKey(DataLine(i)) = k /\ md5_dic[k] = LineChecksums(DataLine(i))
        /\ OneLinePerQuery

\* C17 as amended: a call with cache = False that returns has not read the
\* cache, has made exactly one query for every element of the requested list,
\* in list order (an identifier the list holds n times is queried n times),
\* holds only entries its queries returned, and has appended the fetched
\* lines.
C17_OneQueryPerListElement ==
    (pc = "md5_returned" /\ ~cache) =>
        /\ cache_reads = 0
        /\ Len(queries) = Len(fastq_lis)
        /\ \A i \in 1..Len(queries) : queries[i].fastq = fastq_lis[i]
        /\ \A k \in DOMAIN md5_dic :
               \E i \in 1..Len(queries) :
                   LineKey(DataLine(i)) = k /\ md5_dic[k] = LineChecksums(DataLine(i))
        /\ OneLinePerQuery

C17_Witness ==
    /\ pc = "md5_returned"
    /\ ~cache
    /\ fastq_lis = << SRR1, SRR1 >>
    /\ LET ld == LoadCacheFile(entry_file)
       IN  SRR1 \in ld.keys /\ md5_dic[SRR1] # ld.dic[SRR1]

-----------------------------------------------------------------------------
(* The retry executor and the kind of a failure *)

\* The attempts that failed, by raising or by a response that is not OK.
Failures == { i \in 1..Len(rr_outcomes) : rr_outcomes[i].kind # "ok" }

\* C16: what the executor does depends on the positions of the failed
\* attempts alone, not on whether an attempt failed by raising or by a
\* response that is not OK: the invocations are as many as the outcomes, the
\* sleeps as many as the failures, 60 seconds each and at most 3 x 60 in all;
\* the executor goes on exactly while every attempt has failed, returns at the
\* first attempt that did not, and raises when 3 attempts have failed.
C16_UniformFailureHandling ==
    /\ rr_calls = Len(rr_outcomes)
    /\ rr_sleeps = Cardinality(Failures)
    /\ rr_slept = 60 * Cardinality(Failures)
    /\ rr_slept <= 3 * 60
    /\ rr_i = Cardinality(Failures)
    /\ Failures \in { 1..Len(rr_outcomes), 1..(Len(rr_outcomes) - 1) }
    /\ pc \in { "esearch", "efetch" } => Failures = 1..Len(rr_outcomes)
    /\ (pc = "raised" /\ err.kind = "Failed") <=>
           (pc = "raised" /\ Failures = 1..3)
    /\ (pc \in { "parse", "runs_returned" }
          \/ (pc = "raised" /\ err.kind \notin { "Failed", "esearch" }))
           => Failures = 1..(Len(rr_outcomes) - 1)

C16_Witness ==
    /\ pc = "parse"
    /\ rr_calls = 3
    /\ rr_slept = 2 * 60
    /\ rr_outcomes[1].kind = "raise"
    /\ rr_outcomes[2].kind = "notok"

-----------------------------------------------------------------------------
(* Which checksum a file is compared against *)

\* The file loop passes the current file as matching.
PassesAsMatch ==
    /\ pc = "md5_returned"
    /\ file_idx <= Len(fastq_files)
    /\ file_idx' = file_idx + 1
    /\ fail_cnt' = fail_cnt

\* C18: a file <base>_<k>.<ext> passes as matching only when k is a position
\* of the catalog entry of <base>, counted from 1, and the file's hash is the
\* checksum at that position; a file with index 0 never matches any checksum
\* of the entry.
C18_OnlyKthChecksumCompared ==
    [][ PassesAsMatch =>
            /\ InRange(fastq_files[file_idx], md5_dic)
            /\ actual_md5s'[file_idx] = KthChecksum(fastq_files[file_idx], md5_dic)
      ]_vars

-----------------------------------------------------------------------------
(* Order of the cache read, the queries and the cache write *)

\* The call failed on the answer to one of its queries.
MalformedResponse ==
    /\ pc = "raised"
    /\ err.kind = "IndexError"
    /\ err.description \in { "line", "field" }

\* C19: a call with the cache reads the cache file at most once and has read
\* it when it makes its first query; the file is as the call found it until
\* the call returns with no query left to make; a call that failed on a
\* malformed answer has left the file as it found it, whatever it fetched
\* before.
C19_ReadOnceWriteAtEnd ==
    (ncalls > 0 /\ cache) =>
        /\ cache_reads <= 1
        /\ queries # << >> => cache_reads = 1
        /\ cache_file # entry_file =>
               /\ pc = "md5_returned"
               /\ need_query_lis = << >>
               /\ Len(queries) = Len(res_lis)
        /\ pc = "raised" => cache_file = entry_file
        /\ MalformedResponse => queries # << >>

C19_Witness ==
    /\ cache
    /\ MalformedResponse
    /\ Len(queries) = 2
    /\ res_lis # << >>
    /\ entry_file # << >>
    /\ cache_file = entry_file

-----------------------------------------------------------------------------
(* The first run, before any cache file exists *)

\* C20: while the cache file does not exist, a call of get_md5_from_ena with
\* the cache gets no further than the run resolution: after it the call
\* raises FileNotFoundError, no file report is queried, the file is not
\* created, validate checks no file and prints no summary, and the program
\* does not exit with success once a pair was started.
C20_NoCacheFileFailsFirstRun ==
    /\ ~cache_exists =>
           /\ pc \in { "main", "idle", "get_md5", "runs_returned", "raised", "exited" }
           /\ queries = << >>
           /\ cache_file = << >>
           /\ file_idx = 1
           /\ actual_md5s = << >>
           /\ summaries = << >>
           /\ started # {} => exit_code # ExitOk
    /\ (pc = "raised" /\ err.kind = "FileNotFoundError" /\ err.description = "open") =>
           /\ ~cache_exists
           /\ full_fastq_set # {}

C20_Witness ==
    /\ pc = "raised"
    /\ err.kind = "FileNotFoundError"
    /\ err.description = "open"
    /\ ~cache_exists
    /\ Len(fastq_files) = MaxFiles
    /\ Cardinality(full_fastq_set) = 2

=============================================================================
